---- MODULE Spec2Model ----
(***************************************************************************)
(* Model of llama_index/indices/struct_store/sql_query.py: the text-to-SQL *)
(* query engines (BaseSQLTableQueryEngine, NLSQLTableQueryEngine,          *)
(* PGVectorSQLQueryEngine).                                                *)
(*                                                                         *)
(* Strings are sequences of lexical tokens, one token per class of text    *)
(* the code tells apart:                                                   *)
(*   "Q"  the literal "SQLQuery:"        "R"  the literal "SQLResult:"     *)
(*   "V"  the literal "[query_vector]"   "_"  one whitespace character     *)
(*   "T"  one backtick character         "a"  any other character          *)
(* No two of the three literals can overlap one another or themselves, so  *)
(* str.find / str.replace on characters act on these tokens one by one.    *)
(***************************************************************************)
EXTENDS Integers, Sequences, FiniteSets, TLC

\* ------------------------------------------------------------- bounds
MaxLen == 6
MaxTables == 2

\* ------------------------------------------------------ python strings
SQLQueryMarker == "Q"
SQLResultMarker == "R"
QueryVectorToken == "V"
Whitespace == {"_"}
Backticks == {"T"}
Alphabet == {"Q", "R", "V", "_", "T", "a"}

RECURSIVE StringsUpTo(_)
StringsUpTo(n) ==
    IF n = 0 THEN {<<>>}
    ELSE LET shorter == StringsUpTo(n - 1)
         IN  shorter \cup {Append(s, c) : s \in {t \in shorter : Len(t) = n - 1}, c \in Alphabet}

\* str.find(tok): the 0-based index of the first occurrence, -1 when absent.
Find(s, tok) ==
    IF \E i \in 1..Len(s) : s[i] = tok
    THEN (CHOOSE i \in 1..Len(s) : s[i] = tok /\ \A j \in 1..(i - 1) : s[j] # tok) - 1
    ELSE -1

\* s[k:] and s[:k] for 0 <= k.
SliceFrom(s, k) == SubSeq(s, k + 1, Len(s))
SliceTo(s, k) == SubSeq(s, 1, k)

\* s.startswith(tok)
StartsWith(s, tok) == Len(s) >= 1 /\ s[1] = tok

\* len("SQLQuery:") counted in tokens.
MarkerLen == 1

RECURSIVE LStrip(_, _)
LStrip(s, chars) ==
    IF Len(s) > 0 /\ s[1] \in chars THEN LStrip(Tail(s), chars) ELSE s

RECURSIVE RStrip(_, _)
RStrip(s, chars) ==
    IF Len(s) > 0 /\ s[Len(s)] \in chars THEN RStrip(SubSeq(s, 1, Len(s) - 1), chars) ELSE s

\* str.strip(chars): every leading and trailing character in chars removed.
Strip(s, chars) == RStrip(LStrip(s, chars), chars)

RECURSIVE ReplaceFirstOnly(_, _, _)
ReplaceFirstOnly(s, tok, by) ==
    IF s = <<>> THEN <<>>
    ELSE IF s[1] = tok THEN by \o Tail(s)
    ELSE <<s[1]>> \o ReplaceFirstOnly(Tail(s), tok, by)

\* str.replace(tok, by): left to right, every occurrence.
RECURSIVE Replace(_, _, _)
Replace(s, tok, by) ==
    IF s = <<>> THEN <<>>
    ELSE IF s[1] = tok THEN by \o Replace(Tail(s), tok, by)
    ELSE <<s[1]>> \o Replace(Tail(s), tok, by)

Contains(s, tok) == \E i \in 1..Len(s) : s[i] = tok
Count(s, tok) == Cardinality({i \in 1..Len(s) : s[i] = tok})

\* ------------------------------------------------ SQL extraction (code)
\* Mutant: the marker itself is left in front of the statement.
Base_parse_keep_marker(response) ==
    LET sql_query_start == Find(response, SQLQueryMarker)
        r1 == IF sql_query_start # -1 THEN SliceFrom(response, sql_query_start) ELSE response
        sql_result_start == Find(r1, SQLResultMarker)
        r2 == IF sql_result_start # -1 THEN SliceTo(r1, sql_result_start) ELSE r1
    IN  Strip(Strip(Strip(r2, Whitespace), Backticks), Whitespace)

\* Mutant: the crop at the result marker is left out.
Base_parse_no_result_crop(response) ==
    LET sql_query_start == Find(response, SQLQueryMarker)
        r1 == IF sql_query_start # -1
              THEN SliceFrom(SliceFrom(response, sql_query_start), MarkerLen)
              ELSE response
    IN  Strip(Strip(Strip(r1, Whitespace), Backticks), Whitespace)

\* BaseSQLTableQueryEngine._parse_response_to_sql
Base_parse_response_to_sql(response) ==
    LET sql_query_start == Find(response, SQLQueryMarker)
        r1 == IF sql_query_start # -1
              THEN LET cropped == SliceFrom(response, sql_query_start)
                   IN  IF StartsWith(cropped, SQLQueryMarker)
                       THEN SliceFrom(cropped, MarkerLen)
                       ELSE cropped
              ELSE response
        sql_result_start == Find(r1, SQLResultMarker)
        r2 == IF sql_result_start # -1 THEN SliceTo(r1, sql_result_start) ELSE r1
    IN  Strip(Strip(Strip(r2, Whitespace), Backticks), Whitespace)

\* Mutant: str.replace with count = 1.
PGVector_parse_replace_once(response, query_embedding_str) ==
    LET sql_query_start == Find(response, SQLQueryMarker)
        r1 == IF sql_query_start # -1
              THEN SliceFrom(SliceFrom(response, sql_query_start), MarkerLen)
              ELSE response
        sql_result_start == Find(r1, SQLResultMarker)
        r2 == IF sql_result_start # -1 THEN SliceTo(r1, sql_result_start) ELSE r1
        raw_sql_str == Strip(Strip(Strip(r2, Whitespace), Backticks), Whitespace)
    IN  ReplaceFirstOnly(raw_sql_str, QueryVectorToken, query_embedding_str)

\* PGVectorSQLQueryEngine._parse_response_to_sql, given str(query_embedding).
PGVector_parse_response_to_sql(response, query_embedding_str) ==
    LET sql_query_start == Find(response, SQLQueryMarker)
        r1 == IF sql_query_start # -1
              THEN LET cropped == SliceFrom(response, sql_query_start)
                   IN  IF StartsWith(cropped, SQLQueryMarker)
                       THEN SliceFrom(cropped, MarkerLen)
                       ELSE cropped
              ELSE response
        sql_result_start == Find(r1, SQLResultMarker)
        r2 == IF sql_result_start # -1 THEN SliceTo(r1, sql_result_start) ELSE r1
        raw_sql_str == Strip(Strip(Strip(r2, Whitespace), Backticks), Whitespace)
    IN  Replace(raw_sql_str, QueryVectorToken, query_embedding_str)

\* str(query_embedding) of the embed model: "[" numbers "]"; an embedding is a
\* list of floats, so its text never holds the placeholder token.
EmbeddingStrs == {<<"[", "]">>, <<"[", "9", "]">>}

\* --------------------------------------------- table context (code)
\* The elements a caller can put in `tables`: a name (str), a sqlalchemy
\* Table with that name, or a value of another type.
TableNames == {"t1", "t2", "t3"}
StrElem(n) == [kind |-> "str", name |-> n]
TableElem(n) == [kind |-> "Table", name |-> n]
OtherElem == [kind |-> "other", name |-> "none"]
NoTables == [given |-> FALSE, list |-> <<>>]
Tables(l) == [given |-> TRUE, list |-> l]
TableElems ==
    {StrElem(n) : n \in {"t1", "t2"}} \cup {TableElem(n) : n \in {"t1", "t2"}} \cup {OtherElem}

IsInstanceTable(table) == table.kind = "Table"
IsInstanceStr(table) == table.kind = "str"

\* SQLDatabase.get_single_table_info: the structural description of a table
\* the database has; a name the database does not have raises.
TableInfo ==
    [n \in TableNames |->
        CASE n = "t1" -> <<"info1">>
          [] n = "t2" -> <<"info2", "cols2">>
          [] OTHER    -> <<"info3", "cols3", "keys3">>]

get_single_table_info(db_names, name) ==
    IF \E i \in 1..Len(db_names) : db_names[i] = name
    THEN [raised |-> FALSE, text |-> TableInfo[name]]
    ELSE [raised |-> TRUE, text |-> <<>>]

\* " The table description is: " and the separator "\n\n" of the join.
TableDescriptionPhrase == <<"TD:">>
BlankLine == <<"NLNL">>

\* sep.join(strs)
RECURSIVE Join(_, _)
Join(strs, sep) ==
    IF strs = <<>> THEN <<>>
    ELSE IF Len(strs) = 1 THEN strs[1]
    ELSE strs[1] \o sep \o Join(Tail(strs), sep)

\* table_info of one table: the description, plus the annotation of
\* context_query_kwargs when there is one (lines 421-426 and 434-439).
AnnotatedInfo(table_info, context_query_kwargs, table_str) ==
    IF table_str \in DOMAIN context_query_kwargs
    THEN table_info \o TableDescriptionPhrase \o context_query_kwargs[table_str]
    ELSE table_info

\* Lines 415-420: the two `if` statements on the element's type. The first
\* binds table_str for a Table; the second, an if/else of its own, binds it
\* for a str and raises ValueError for everything else.
TableStr(table) ==
    LET after_first == IF IsInstanceTable(table) THEN table.name ELSE "unbound"
    IN  IF IsInstanceStr(table)
        THEN [raised |-> FALSE, table_str |-> table.name]
        ELSE [raised |-> TRUE, table_str |-> after_first]

CtxOk(context_strs, calls) ==
    [kind |-> "ok", block |-> Join(context_strs, BlankLine), calls |-> calls]
CtxRaise(err, calls) ==
    [kind |-> err, block |-> <<>>, calls |-> calls]

\* The loop of lines 414-428 from element i on; calls lists the names handed
\* to get_single_table_info so far.
RECURSIVE SuppliedLoop(_, _, _, _, _, _)
SuppliedLoop(tables, i, context_strs, calls, context_query_kwargs, db_names) ==
    IF i > Len(tables) THEN CtxOk(context_strs, calls)
    ELSE LET ts == TableStr(tables[i])
         IN  IF ts.raised THEN CtxRaise("ValueError", calls)
             ELSE LET info == get_single_table_info(db_names, ts.table_str)
                      called == Append(calls, ts.table_str)
                  IN  IF info.raised THEN CtxRaise("DatabaseError", called)
                      ELSE SuppliedLoop(tables, i + 1,
                              Append(context_strs,
                                     AnnotatedInfo(info.text, context_query_kwargs, ts.table_str)),
                              called, context_query_kwargs, db_names)

\* The loop of lines 433-441 over get_usable_table_names().
RECURSIVE AllTablesLoop(_, _, _, _, _, _)
AllTablesLoop(table_names, i, context_strs, calls, context_query_kwargs, db_names) ==
    IF i > Len(table_names) THEN CtxOk(context_strs, calls)
    ELSE LET info == get_single_table_info(db_names, table_names[i])
             called == Append(calls, table_names[i])
         IN  IF info.raised THEN CtxRaise("DatabaseError", called)
             ELSE AllTablesLoop(table_names, i + 1,
                     Append(context_strs,
                            AnnotatedInfo(info.text, context_query_kwargs, table_names[i])),
                     called, context_query_kwargs, db_names)

Reverse(s) == [i \in 1..Len(s) |-> s[Len(s) + 1 - i]]

\* Mutant: the entries are joined in reverse order.
NLSQL_get_table_context_reversed(tables, context_query_kwargs, db_names) ==
    IF tables.given /\ Len(tables.list) > 0
    THEN SuppliedLoop(Reverse(tables.list), 1, <<>>, <<>>, context_query_kwargs, db_names)
    ELSE AllTablesLoop(Reverse(db_names), 1, <<>>, <<>>, context_query_kwargs, db_names)

\* NLSQLTableQueryEngine._get_table_context. `tables` is None or a list;
\* `if self._tables:` is false for both None and the empty list.
NLSQL_get_table_context(tables, context_query_kwargs, db_names) ==
    IF tables.given /\ Len(tables.list) > 0
    THEN SuppliedLoop(tables.list, 1, <<>>, <<>>, context_query_kwargs, db_names)
    ELSE AllTablesLoop(db_names, 1, <<>>, <<>>, context_query_kwargs, db_names)

\* ------------------------------------------------------------ variables
VARIABLES
    p_response,     \* the model completion handed to _parse_response_to_sql
    p_pc,           \* "start", "base_done" (p_sql is set) or "pg_done" (pg_sql too)
    p_sql,          \* what the Base extraction returned
    pg_embedding,   \* str(query_embedding) used by the PGVector engine
    pg_sql,         \* what the PGVector extraction returned
    c_tables,       \* self._tables of the context call: None or a list
    c_kwargs,       \* self._context_query_kwargs of the context call
    c_db_names,     \* get_usable_table_names() of the database
    c_result,       \* the outcome of _get_table_context
    engine,         \* the engine object: construction outcome and its fields
    env,            \* what the collaborators answer for the current question
    run,            \* the invocation of _query / _aquery in progress
    outcome         \* per entry point, what the caller got back

parseVars == <<p_response, p_pc, p_sql, pg_embedding, pg_sql>>
ctxVars == <<c_tables, c_kwargs, c_db_names, c_result>>
pipeVars == <<engine, env, run, outcome>>
vars == <<p_response, p_pc, p_sql, pg_embedding, pg_sql, c_tables, c_kwargs, c_db_names, c_result,
          engine, env, run, outcome>>

\* ------------------------------------------------- python dictionaries
EmptyDict == <<>>
\* d[k] = v
SetItem(d, k, v) == [x \in DOMAIN d \cup {k} |-> IF x = k THEN v ELSE d[x]]
\* Mutant: the response's own entries are kept on a collision.
DictUpdateKeepOwn(d, other) ==
    [x \in DOMAIN d \cup DOMAIN other |-> IF x \in DOMAIN d THEN d[x] ELSE other[x]]
\* d.update(other): the entries of other win.
DictUpdate(d, other) ==
    [x \in DOMAIN d \cup DOMAIN other |-> IF x \in DOMAIN other THEN other[x] ELSE d[x]]

\* ------------------------------------------------------- construction
\* Prompt templates: a name and the variables the template declares.
RequiredVars == {"query_str", "sql_query", "context_str"}
DEFAULT_RESPONSE_SYNTHESIS_PROMPT_V2 ==
    [name |-> <<"DEFAULT_RESPONSE_SYNTHESIS_PROMPT_V2">>, template_vars |-> RequiredVars]
TemplateVarNames == {"query_str", "sql_query", "context_str", "sql_response_str"}
CustomPrompts ==
    {[name |-> <<"custom">>, template_vars |-> vs] : vs \in SUBSET TemplateVarNames}
NoPrompt == [name |-> <<"None">>, template_vars |-> {}]

\* Mutant: only missing variables are rejected, extra ones pass.
validate_prompt_subset(response_synthesis_prompt) ==
    ~(DEFAULT_RESPONSE_SYNTHESIS_PROMPT_V2.template_vars
        \subseteq response_synthesis_prompt.template_vars)

\* _validate_prompt: TRUE when it raises ValueError.
validate_prompt(response_synthesis_prompt) ==
    response_synthesis_prompt.template_vars
        # DEFAULT_RESPONSE_SYNTHESIS_PROMPT_V2.template_vars

DEFAULT_TEXT_TO_SQL_PROMPT == <<"DEFAULT_TEXT_TO_SQL_PROMPT">>
DEFAULT_TEXT_TO_SQL_PGVECTOR_PROMPT == <<"DEFAULT_TEXT_TO_SQL_PGVECTOR_PROMPT">>

\* The table lists and annotations the engines of this model are built with,
\* and the database they query.
DbNames == <<"t2", "t1">>
EngineTables ==
    {NoTables, Tables(<<StrElem("t1"), StrElem("t2")>>), Tables(<<TableElem("t1")>>),
     Tables(<<StrElem("t3")>>)}
EngineKwargs == [n \in {"t1"} |-> <<"note1">>]
QueryStr == <<"question">>
Dialect == <<"sqlite">>

NoEngine ==
    [status |-> "none", variant |-> "none", synthesize_response |-> FALSE,
     text_to_sql_prompt |-> <<>>, response_synthesis_prompt |-> NoPrompt,
     custom_prompt |-> FALSE, tables |-> NoTables, context_query_kwargs |-> EmptyDict]

\* ------------------------------------------------------- collaborators
Memo(v) == [set |-> TRUE, val |-> v]
Ev(kind, who, args) == [ev |-> kind, who |-> who, args |-> args]

\* llm_predictor.predict / apredict: a completion, or a failure.
PredictResults ==
    {[raised |-> TRUE, text |-> <<>>],
     [raised |-> FALSE, text |-> <<"Q", "_", "a", "_", "R", "a">>],
     [raised |-> FALSE, text |-> <<"T", "a", "V", "T">>]}
\* embed_model.get_query_embedding, stringified: a failure or the text.
\* Only the PGVector engine asks for an embedding.
NoEmbedding == [raised |-> FALSE, text |-> <<>>]
EmbedResults == {[raised |-> TRUE, text |-> <<>>], [raised |-> FALSE, text |-> <<"[", "9", "]">>]}
EmbedChoices(variant) == IF variant = "PGVector" THEN EmbedResults ELSE {NoEmbedding}

\* No handler surrounds the run_sql call (lines 315 and 353): its exception
\* leaves _query / _aquery.
run_sql_swallowed(res) == FALSE
run_sql_raises(res) == res.raised
\* sql_database.run_sql: a failure, or the raw text and its metadata.
RunSqlResults ==
    {[raised |-> TRUE, text |-> <<>>, metadata |-> EmptyDict],
     [raised |-> FALSE, text |-> <<"rows1">>, metadata |-> [result |-> <<"r1">>]],
     [raised |-> FALSE, text |-> <<"rows2">>,
      metadata |-> [result |-> <<"r2">>, sql_query |-> <<"stale">>]]}
\* response_synthesizer.synthesize / asynthesize: a failure, or a Response
\* whose metadata is None or a mapping (possibly with colliding keys).
SynthesizeResults ==
    {[raised |-> TRUE, text |-> <<>>, metadata_is_none |-> FALSE, metadata |-> EmptyDict],
     [raised |-> FALSE, text |-> <<"answer">>, metadata_is_none |-> TRUE, metadata |-> EmptyDict],
     [raised |-> FALSE, text |-> <<"answer">>, metadata_is_none |-> FALSE,
      metadata |-> [node1 |-> <<"m1">>]],
     [raised |-> FALSE, text |-> <<"answer">>, metadata_is_none |-> FALSE,
      metadata |-> [node1 |-> <<"m1">>, result |-> <<"synth">>, sql_query |-> <<"synth">>]]}

Unset == [set |-> FALSE, val |-> <<>>]
NoEnv == [predict |-> Unset, embed |-> Unset, run_sql |-> Unset, synthesize |-> Unset]

IdleRun ==
    [fn |-> "none", pc |-> "idle", table_desc_str |-> <<>>, sql_query_str |-> <<>>,
     raw_response_str |-> <<>>, metadata |-> EmptyDict, log |-> <<>>]

NoOutcome ==
    [done |-> FALSE, kind |-> "none", response |-> <<>>, metadata |-> EmptyDict,
     error |-> "none", log |-> <<>>]
Returned(response, metadata, log) ==
    [done |-> TRUE, kind |-> "response", response |-> response, metadata |-> metadata,
     error |-> "none", log |-> log]
Raised(error, log) ==
    [done |-> TRUE, kind |-> "error", response |-> <<>>, metadata |-> EmptyDict,
     error |-> error, log |-> log]
EntryPoints == {"_query", "_aquery"}

\* The events of one _get_table_context call: the call, each
\* get_single_table_info it made, and its return or raise.
ContextEvents(ctx) ==
    LET n == Len(ctx.calls)
        dbFailed == ctx.kind = "DatabaseError"
        infos == [i \in 1..(2 * n) |->
                    IF i % 2 = 1
                    THEN Ev("call", "get_single_table_info", <<<<ctx.calls[(i + 1) \div 2]>>>>)
                    ELSE Ev(IF dbFailed /\ i = 2 * n THEN "raise" ELSE "return",
                            "get_single_table_info", <<>>)]
    IN  <<Ev("call", "get_table_context", <<QueryStr>>)>> \o infos
        \o <<Ev(IF ctx.kind = "ok" THEN "return" ELSE "raise", "get_table_context", <<>>)>>

\* self._parse_response_to_sql(response_str, query_bundle), dispatched on the
\* engine's class; the PGVector engine asks the embed model first.
parse_response_to_sql(variant, response_str, emb) ==
    IF variant = "PGVector"
    THEN IF emb.raised
         THEN [raised |-> TRUE, sql |-> <<>>,
               events |-> <<Ev("call", "get_query_embedding", <<QueryStr>>),
                            Ev("raise", "get_query_embedding", <<>>)>>]
         ELSE [raised |-> FALSE,
               sql |-> PGVector_parse_response_to_sql(response_str, emb.text),
               events |-> <<Ev("call", "get_query_embedding", <<QueryStr>>),
                            Ev("return", "get_query_embedding", <<emb.text>>)>>]
    ELSE [raised |-> FALSE, sql |-> Base_parse_response_to_sql(response_str), events |-> <<>>]

\* ---------------------------------------------------- the orchestrator
\* BaseSQLTableQueryEngine.__init__ through a subclass (NLSQLTableQueryEngine
\* or PGVectorSQLQueryEngine): the fields are set, the prompt is validated,
\* and a ValueError leaves the caller without an engine.
Construct ==
    /\ engine.status = "none"
    /\ \E variant \in {"NLSQL", "PGVector"}, synthesize_response \in BOOLEAN,
          given \in CustomPrompts \cup {NoPrompt}, tables \in EngineTables :
        LET prompt == IF given = NoPrompt THEN DEFAULT_RESPONSE_SYNTHESIS_PROMPT_V2 ELSE given
        IN  engine' =
              [status |-> IF validate_prompt(prompt) THEN "ValueError" ELSE "ok",
               variant |-> variant,
               synthesize_response |-> synthesize_response,
               text_to_sql_prompt |-> IF variant = "PGVector"
                                      THEN DEFAULT_TEXT_TO_SQL_PGVECTOR_PROMPT
                                      ELSE DEFAULT_TEXT_TO_SQL_PROMPT,
               response_synthesis_prompt |-> prompt,
               custom_prompt |-> given # NoPrompt,
               tables |-> tables,
               context_query_kwargs |-> EngineKwargs]
    /\ UNCHANGED <<env, run, outcome, parseVars, ctxVars>>

\* The caller asks a new question: the collaborators' answers are open again.
NewQuestion ==
    /\ engine.status = "ok"
    /\ run.fn = "none"
    /\ \A f \in EntryPoints : outcome[f].done
    /\ env' = NoEnv
    /\ outcome' = [f \in EntryPoints |-> NoOutcome]
    /\ UNCHANGED <<engine, run, parseVars, ctxVars>>

\* _query, line 318: `if self._synthesize_response:`.
Query_synthesize_always == TRUE
Query_synthesize_enabled == engine.synthesize_response

\* _query, line 331: cast(Dict, response.metadata).update(metadata).
Query_merge_metadata(response_metadata, metadata) == DictUpdate(response_metadata, metadata)

\* _query, line 301: table_desc_str = self._get_table_context(query_bundle).
Query_Context ==
    /\ engine.status = "ok"
    /\ run.fn = "none"
    /\ ~outcome["_query"].done
    /\ LET ctx == NLSQL_get_table_context(engine.tables, engine.context_query_kwargs, DbNames)
           log == ContextEvents(ctx)
       IN  IF ctx.kind = "ok"
           THEN /\ run' = [IdleRun EXCEPT !.fn = "_query", !.pc = "predict",
                                          !.table_desc_str = ctx.block, !.log = log]
                /\ UNCHANGED outcome
           ELSE /\ run' = IdleRun
                /\ outcome' = [outcome EXCEPT !["_query"] = Raised(ctx.kind, log)]
    /\ UNCHANGED <<engine, env, parseVars, ctxVars>>

\* _query, lines 304: the call of llm_predictor.predict is made.
Query_PredictCall ==
    /\ run.fn = "_query" /\ run.pc = "predict"
    /\ run' = [run EXCEPT !.pc = "predict_wait",
                          !.log = Append(@, Ev("call", "predict",
                                     <<engine.text_to_sql_prompt, QueryStr,
                                       run.table_desc_str, Dialect>>))]
    /\ UNCHANGED <<engine, env, outcome, parseVars, ctxVars>>

\* _query, lines 304-311: predict returns or raises; the completion is
\* parsed by the engine's own _parse_response_to_sql.
Query_PredictReturn ==
    /\ run.fn = "_query" /\ run.pc = "predict_wait"
    /\ \E res \in PredictResults :
        /\ env.predict.set => res = env.predict.val
        /\ IF res.raised
           THEN /\ env' = [env EXCEPT !.predict = Memo(res)]
                /\ run' = IdleRun
                /\ outcome' = [outcome EXCEPT !["_query"] =
                        Raised("PredictError", Append(run.log, Ev("raise", "predict", <<>>)))]
           ELSE \E emb \in EmbedChoices(engine.variant) :
                /\ env.embed.set => emb = env.embed.val
                /\ LET log1 == Append(run.log, Ev("return", "predict", <<res.text>>))
                       parsed == parse_response_to_sql(engine.variant, res.text, emb)
                       log2 == log1 \o parsed.events
                   IN  /\ env' = [env EXCEPT !.predict = Memo(res),
                                             !.embed = IF engine.variant = "PGVector"
                                                       THEN Memo(emb) ELSE @]
                       /\ IF parsed.raised
                          THEN /\ run' = IdleRun
                               /\ outcome' = [outcome EXCEPT !["_query"] =
                                       Raised("EmbeddingError", log2)]
                          ELSE /\ run' = [run EXCEPT !.pc = "run_sql", !.log = log2,
                                                     !.sql_query_str = parsed.sql]
                               /\ UNCHANGED outcome
    /\ UNCHANGED <<engine, parseVars, ctxVars>>

\* Mutant: a failed run_sql is tried a second time before giving up.
Query_RunSql_retry ==
    /\ run.fn = "_query" /\ run.pc = "run_sql"
    /\ \E res \in RunSqlResults :
        /\ env.run_sql.set => res = env.run_sql.val
        /\ env' = [env EXCEPT !.run_sql = Memo(res)]
        /\ LET called == Append(run.log, Ev("call", "run_sql", <<run.sql_query_str>>))
           IN  IF run_sql_raises(res)
               THEN /\ run' = IdleRun
                    /\ outcome' = [outcome EXCEPT !["_query"] =
                            Raised("ExecutionError",
                                   called \o <<Ev("raise", "run_sql", <<>>),
                                               Ev("call", "run_sql", <<run.sql_query_str>>),
                                               Ev("raise", "run_sql", <<>>)>>)]
               ELSE LET log == Append(called, Ev("return", "run_sql", <<res.text>>))
                        metadata == SetItem(res.metadata, "sql_query", run.sql_query_str)
                    IN  IF Query_synthesize_enabled
                        THEN /\ run' = [run EXCEPT !.pc = "synthesize", !.log = log,
                                                   !.raw_response_str = res.text,
                                                   !.metadata = metadata]
                             /\ UNCHANGED outcome
                        ELSE /\ run' = IdleRun
                             /\ outcome' = [outcome EXCEPT !["_query"] =
                                     Returned(res.text, metadata, log)]
    /\ UNCHANGED <<engine, parseVars, ctxVars>>

\* _query, lines 315-316 and 333-335: run_sql (a blocking call), the
\* "sql_query" entry, and the response without synthesis.
Query_RunSql ==
    /\ run.fn = "_query" /\ run.pc = "run_sql"
    /\ \E res \in RunSqlResults :
        /\ env.run_sql.set => res = env.run_sql.val
        /\ env' = [env EXCEPT !.run_sql = Memo(res)]
        /\ LET called == Append(run.log, Ev("call", "run_sql", <<run.sql_query_str>>))
           IN  IF run_sql_raises(res)
               THEN /\ run' = IdleRun
                    /\ outcome' = [outcome EXCEPT !["_query"] =
                            Raised("ExecutionError", Append(called, Ev("raise", "run_sql", <<>>)))]
               ELSE LET log == Append(called, Ev("return", "run_sql", <<res.text>>))
                        metadata == SetItem(res.metadata, "sql_query", run.sql_query_str)
                    IN  IF Query_synthesize_enabled
                        THEN /\ run' = [run EXCEPT !.pc = "synthesize", !.log = log,
                                                   !.raw_response_str = res.text,
                                                   !.metadata = metadata]
                             /\ UNCHANGED outcome
                        ELSE /\ run' = IdleRun
                             /\ outcome' = [outcome EXCEPT !["_query"] =
                                     Returned(res.text, metadata, log)]
    /\ UNCHANGED <<engine, parseVars, ctxVars>>

\* _query, lines 318-327: partial_format, get_response_synthesizer and the
\* call of synthesize on the one node wrapping the raw result.
Query_SynthesizeCall ==
    /\ run.fn = "_query" /\ run.pc = "synthesize"
    /\ run' = [run EXCEPT !.pc = "synthesize_wait",
                          !.log = @ \o <<Ev("call", "get_response_synthesizer",
                                            <<engine.response_synthesis_prompt.name,
                                              run.sql_query_str>>),
                                         Ev("return", "get_response_synthesizer", <<>>),
                                         Ev("call", "synthesize",
                                            <<QueryStr, run.raw_response_str>>)>>]
    /\ UNCHANGED <<engine, env, outcome, parseVars, ctxVars>>

\* _query, lines 327-332: synthesize returns or raises; the execution
\* metadata is merged into the response's metadata with dict.update.
Query_SynthesizeReturn ==
    /\ run.fn = "_query" /\ run.pc = "synthesize_wait"
    /\ \E res \in SynthesizeResults :
        /\ env.synthesize.set => res = env.synthesize.val
        /\ env' = [env EXCEPT !.synthesize = Memo(res)]
        /\ run' = IdleRun
        /\ outcome' = [outcome EXCEPT !["_query"] =
              IF res.raised
              THEN Raised("SynthesisError", Append(run.log, Ev("raise", "synthesize", <<>>)))
              ELSE LET log == Append(run.log, Ev("return", "synthesize", <<res.text>>))
                   IN  IF res.metadata_is_none
                       THEN Raised("AttributeError", log)
                       ELSE Returned(res.text, Query_merge_metadata(res.metadata, run.metadata), log)]
    /\ UNCHANGED <<engine, parseVars, ctxVars>>

\* _aquery, line 356: `if self._synthesize_response:`.
AQuery_synthesize_enabled == engine.synthesize_response

\* _aquery, line 369: cast(Dict, response.metadata).update(metadata).
AQuery_merge_nothing(response_metadata, metadata) == response_metadata
AQuery_merge_metadata(response_metadata, metadata) == DictUpdate(response_metadata, metadata)

\* _aquery, line 339: table_desc_str = self._get_table_context(query_bundle).
AQuery_Context ==
    /\ engine.status = "ok"
    /\ run.fn = "none"
    /\ ~outcome["_aquery"].done
    /\ LET ctx == NLSQL_get_table_context(engine.tables, engine.context_query_kwargs, DbNames)
           log == ContextEvents(ctx)
       IN  IF ctx.kind = "ok"
           THEN /\ run' = [IdleRun EXCEPT !.fn = "_aquery", !.pc = "predict",
                                          !.table_desc_str = ctx.block, !.log = log]
                /\ UNCHANGED outcome
           ELSE /\ run' = IdleRun
                /\ outcome' = [outcome EXCEPT !["_aquery"] = Raised(ctx.kind, log)]
    /\ UNCHANGED <<engine, env, parseVars, ctxVars>>

\* _aquery, lines 342: the call of llm_predictor.apredict is made.
AQuery_PredictCall ==
    /\ run.fn = "_aquery" /\ run.pc = "predict"
    /\ run' = [run EXCEPT !.pc = "predict_wait",
                          !.log = Append(@, Ev("call", "apredict",
                                     <<engine.text_to_sql_prompt, QueryStr,
                                       run.table_desc_str, Dialect>>))]
    /\ UNCHANGED <<engine, env, outcome, parseVars, ctxVars>>

\* _aquery, lines 342-349: apredict returns or raises; the completion is
\* parsed by the engine's own _parse_response_to_sql.
AQuery_PredictReturn ==
    /\ run.fn = "_aquery" /\ run.pc = "predict_wait"
    /\ \E res \in PredictResults :
        /\ env.predict.set => res = env.predict.val
        /\ IF res.raised
           THEN /\ env' = [env EXCEPT !.predict = Memo(res)]
                /\ run' = IdleRun
                /\ outcome' = [outcome EXCEPT !["_aquery"] =
                        Raised("PredictError", Append(run.log, Ev("raise", "apredict", <<>>)))]
           ELSE \E emb \in EmbedChoices(engine.variant) :
                /\ env.embed.set => emb = env.embed.val
                /\ LET log1 == Append(run.log, Ev("return", "apredict", <<res.text>>))
                       parsed == parse_response_to_sql(engine.variant, res.text, emb)
                       log2 == log1 \o parsed.events
                   IN  /\ env' = [env EXCEPT !.predict = Memo(res),
                                             !.embed = IF engine.variant = "PGVector"
                                                       THEN Memo(emb) ELSE @]
                       /\ IF parsed.raised
                          THEN /\ run' = IdleRun
                               /\ outcome' = [outcome EXCEPT !["_aquery"] =
                                       Raised("EmbeddingError", log2)]
                          ELSE /\ run' = [run EXCEPT !.pc = "run_sql", !.log = log2,
                                                     !.sql_query_str = parsed.sql]
                               /\ UNCHANGED outcome
    /\ UNCHANGED <<engine, parseVars, ctxVars>>

\* _aquery, lines 353-354 and 371-373: run_sql (a blocking call), the
\* "sql_query" entry, and the response without synthesis.
AQuery_RunSql ==
    /\ run.fn = "_aquery" /\ run.pc = "run_sql"
    /\ \E res \in RunSqlResults :
        /\ env.run_sql.set => res = env.run_sql.val
        /\ env' = [env EXCEPT !.run_sql = Memo(res)]
        /\ LET called == Append(run.log, Ev("call", "run_sql", <<run.sql_query_str>>))
           IN  IF run_sql_raises(res)
               THEN /\ run' = IdleRun
                    /\ outcome' = [outcome EXCEPT !["_aquery"] =
                            Raised("ExecutionError", Append(called, Ev("raise", "run_sql", <<>>)))]
               ELSE LET log == Append(called, Ev("return", "run_sql", <<res.text>>))
                        metadata == SetItem(res.metadata, "sql_query", run.sql_query_str)
                    IN  IF AQuery_synthesize_enabled
                        THEN /\ run' = [run EXCEPT !.pc = "synthesize", !.log = log,
                                                   !.raw_response_str = res.text,
                                                   !.metadata = metadata]
                             /\ UNCHANGED outcome
                        ELSE /\ run' = IdleRun
                             /\ outcome' = [outcome EXCEPT !["_aquery"] =
                                     Returned(res.text, metadata, log)]
    /\ UNCHANGED <<engine, parseVars, ctxVars>>

\* _aquery, lines 356-365: partial_format, get_response_synthesizer and the
\* call of asynthesize on the one node wrapping the raw result.
AQuery_SynthesizeCall ==
    /\ run.fn = "_aquery" /\ run.pc = "synthesize"
    /\ run' = [run EXCEPT !.pc = "synthesize_wait",
                          !.log = @ \o <<Ev("call", "get_response_synthesizer",
                                            <<engine.response_synthesis_prompt.name,
                                              run.sql_query_str>>),
                                         Ev("return", "get_response_synthesizer", <<>>),
                                         Ev("call", "asynthesize",
                                            <<QueryStr, run.raw_response_str>>)>>]
    /\ UNCHANGED <<engine, env, outcome, parseVars, ctxVars>>

\* _aquery, lines 365-370: asynthesize returns or raises; the execution
\* metadata is merged into the response's metadata with dict.update.
AQuery_SynthesizeReturn ==
    /\ run.fn = "_aquery" /\ run.pc = "synthesize_wait"
    /\ \E res \in SynthesizeResults :
        /\ env.synthesize.set => res = env.synthesize.val
        /\ env' = [env EXCEPT !.synthesize = Memo(res)]
        /\ run' = IdleRun
        /\ outcome' = [outcome EXCEPT !["_aquery"] =
              IF res.raised
              THEN Raised("SynthesisError", Append(run.log, Ev("raise", "asynthesize", <<>>)))
              ELSE LET log == Append(run.log, Ev("return", "asynthesize", <<res.text>>))
                   IN  IF res.metadata_is_none
                       THEN Raised("AttributeError", log)
                       ELSE Returned(res.text, AQuery_merge_metadata(res.metadata, run.metadata), log)]
    /\ UNCHANGED <<engine, parseVars, ctxVars>>

Next ==
    \/ Construct
    \/ NewQuestion
    \/ Query_Context \/ Query_PredictCall \/ Query_PredictReturn
    \/ Query_RunSql \/ Query_SynthesizeCall \/ Query_SynthesizeReturn
    \/ AQuery_Context \/ AQuery_PredictCall \/ AQuery_PredictReturn
    \/ AQuery_RunSql \/ AQuery_SynthesizeCall \/ AQuery_SynthesizeReturn

ParseIdle ==
    p_response = <<>> /\ p_pc = "start" /\ p_sql = <<>> /\ pg_embedding = <<>> /\ pg_sql = <<>>
CtxUnset == [kind |-> "unset", block |-> <<>>, calls |-> <<>>]
CtxIdle ==
    c_tables = NoTables /\ c_kwargs = EmptyDict /\ c_db_names = <<>> /\ c_result = CtxUnset
PipeIdle ==
    /\ engine = NoEngine
    /\ env = NoEnv
    /\ run = IdleRun
    /\ outcome = [f \in EntryPoints |-> NoOutcome]

Init == PipeIdle /\ ParseIdle /\ CtxIdle

Spec == Init /\ [][Next]_vars

\* --------------------------------------- specification of the extraction
InitParse ==
    /\ p_response \in StringsUpTo(MaxLen)
    /\ p_pc = "start"
    /\ p_sql = <<>>
    /\ pg_embedding = <<>>
    /\ pg_sql = <<>>
    /\ CtxIdle /\ PipeIdle

ParseBase ==
    /\ p_pc = "start"
    /\ p_sql' = Base_parse_response_to_sql(p_response)
    /\ p_pc' = "base_done"
    /\ UNCHANGED <<p_response, pg_embedding, pg_sql, ctxVars, pipeVars>>

ParsePGVector ==
    /\ p_pc = "base_done"
    /\ p_pc' = "pg_done"
    /\ \E e \in EmbeddingStrs :
        /\ pg_embedding' = e
        /\ pg_sql' = PGVector_parse_response_to_sql(p_response, e)
    /\ UNCHANGED <<p_response, p_sql, ctxVars, pipeVars>>

NextParse == ParseBase \/ ParsePGVector

SpecParse == InitParse /\ [][NextParse]_vars

\* ------------------------------------ specification of the table context
RECURSIVE ListsUpTo(_, _)
ListsUpTo(S, n) ==
    IF n = 0 THEN {<<>>}
    ELSE LET shorter == ListsUpTo(S, n - 1)
         IN  shorter \cup {Append(l, x) : l \in {t \in shorter : Len(t) = n - 1}, x \in S}

NoDuplicates(l) == \A i, j \in 1..Len(l) : i # j => l[i] # l[j]
KwargsChoices ==
    {EmptyDict, [n \in {"t1"} |-> <<"note1">>], [n \in {"t1", "t2"} |-> <<"note", n>>]}

InitCtx ==
    /\ c_tables \in {NoTables} \cup {Tables(l) : l \in ListsUpTo(TableElems, MaxTables)}
    /\ c_kwargs \in KwargsChoices
    /\ c_db_names \in {l \in ListsUpTo(TableNames, 3) : NoDuplicates(l)}
    /\ c_result = CtxUnset
    /\ ParseIdle /\ PipeIdle

GetTableContext ==
    /\ c_result.kind = "unset"
    /\ c_result' = NLSQL_get_table_context(c_tables, c_kwargs, c_db_names)
    /\ UNCHANGED <<c_tables, c_kwargs, c_db_names, parseVars, pipeVars>>

NextCtx == GetTableContext

SpecCtx == InitCtx /\ [][NextCtx]_vars

\* ------------------------------------------ the legacy NL engine (97-232)
\* NLStructStoreQueryEngine._parse_response_to_sql: the completion is cut at
\* the first SQLResult: and stripped of whitespace, nothing else.
Legacy_parse_response_to_sql(response) ==
    LET sql_result_start == Find(response, SQLResultMarker)
        r == IF sql_result_start # -1 THEN SliceTo(response, sql_result_start) ELSE response
    IN  Strip(r, Whitespace)

\* index.sql_context_container: a context string or None, and a mapping of
\* table descriptions (its values, in order) or None.
ContextContainers ==
    {[context_str_is_none |-> FALSE, context_str |-> <<"ctx">>,
      context_dict_is_none |-> TRUE, context_dict |-> <<>>],
     [context_str_is_none |-> TRUE, context_str |-> <<>>,
      context_dict_is_none |-> TRUE, context_dict |-> <<>>],
     [context_str_is_none |-> TRUE, context_str |-> <<>>,
      context_dict_is_none |-> FALSE, context_dict |-> << <<"d1">>, <<"d2">> >>]}

\* NLStructStoreQueryEngine._get_table_context.
Legacy_get_table_context(sql_context_container) ==
    IF ~sql_context_container.context_str_is_none
    THEN [kind |-> "ok", block |-> sql_context_container.context_str]
    ELSE IF sql_context_container.context_dict_is_none
         THEN [kind |-> "ValueError", block |-> <<>>]
         ELSE [kind |-> "ok", block |-> Join(sql_context_container.context_dict, BlankLine)]

Legacy_ContextEvents(ctx) ==
    <<Ev("call", "get_table_context", <<QueryStr>>),
      Ev(IF ctx.kind = "ok" THEN "return" ELSE "raise", "get_table_context", <<>>)>>

DEFAULT_RESPONSE_SYNTHESIS_PROMPT ==
    [name |-> <<"DEFAULT_RESPONSE_SYNTHESIS_PROMPT">>,
     template_vars |-> {"query_str", "sql_query", "sql_response_str"}]
LegacyCustomPrompt ==
    [name |-> <<"custom">>, template_vars |-> {"query_str", "sql_query", "sql_response_str"}]

\* The second llm_predictor.predict of the legacy _query: a failure or the
\* synthesized answer.
LegacySynthesisResults ==
    {[raised |-> TRUE, text |-> <<>>], [raised |-> FALSE, text |-> <<"answer">>]}

\* NLStructStoreQueryEngine.__init__: nothing is validated.
Legacy_Construct ==
    /\ engine.status = "none"
    /\ \E synthesize_response \in BOOLEAN, given \in {NoPrompt, LegacyCustomPrompt},
          container \in ContextContainers :
        engine' =
          [status |-> "ok",
           variant |-> "Legacy",
           synthesize_response |-> synthesize_response,
           text_to_sql_prompt |-> DEFAULT_TEXT_TO_SQL_PROMPT,
           response_synthesis_prompt |->
               IF given = NoPrompt THEN DEFAULT_RESPONSE_SYNTHESIS_PROMPT ELSE given,
           sql_context_container |-> container]
    /\ UNCHANGED <<env, run, outcome, parseVars, ctxVars>>

\* Legacy _query, line 202: `if self._synthesize_response:`.
Legacy_Query_synthesize_never == FALSE
Legacy_Query_synthesize_enabled == engine.synthesize_response

\* Legacy _query, line 185.
Legacy_Query_Context ==
    /\ engine.status = "ok"
    /\ run.fn = "none"
    /\ ~outcome["_query"].done
    /\ LET ctx == Legacy_get_table_context(engine.sql_context_container)
           log == Legacy_ContextEvents(ctx)
       IN  IF ctx.kind = "ok"
           THEN /\ run' = [IdleRun EXCEPT !.fn = "_query", !.pc = "predict",
                                          !.table_desc_str = ctx.block, !.log = log]
                /\ UNCHANGED outcome
           ELSE /\ run' = IdleRun
                /\ outcome' = [outcome EXCEPT !["_query"] = Raised(ctx.kind, log)]
    /\ UNCHANGED <<engine, env, parseVars, ctxVars>>

\* Legacy _query, lines 188-193: the text-to-SQL predict call is made.
Legacy_Query_PredictCall ==
    /\ run.fn = "_query" /\ run.pc = "predict"
    /\ run' = [run EXCEPT !.pc = "predict_wait",
                          !.log = Append(@, Ev("call", "predict",
                                     <<engine.text_to_sql_prompt, QueryStr,
                                       run.table_desc_str, Dialect>>))]
    /\ UNCHANGED <<engine, env, outcome, parseVars, ctxVars>>

\* Legacy _query, lines 188-195: predict returns or raises; the completion
\* is parsed.
Legacy_Query_PredictReturn ==
    /\ run.fn = "_query" /\ run.pc = "predict_wait"
    /\ \E res \in PredictResults :
        /\ env.predict.set => res = env.predict.val
        /\ env' = [env EXCEPT !.predict = Memo(res)]
        /\ IF res.raised
           THEN /\ run' = IdleRun
                /\ outcome' = [outcome EXCEPT !["_query"] =
                        Raised("PredictError", Append(run.log, Ev("raise", "predict", <<>>)))]
           ELSE /\ run' = [run EXCEPT !.pc = "run_sql",
                                      !.log = Append(@, Ev("return", "predict", <<res.text>>)),
                                      !.sql_query_str = Legacy_parse_response_to_sql(res.text)]
                /\ UNCHANGED outcome
    /\ UNCHANGED <<engine, parseVars, ctxVars>>

\* Legacy _query, lines 199-212: run_sql, the sql_query entry, then either
\* the synthesis step or the raw text as the response.
Legacy_Query_RunSql ==
    /\ run.fn = "_query" /\ run.pc = "run_sql"
    /\ \E res \in RunSqlResults :
        /\ env.run_sql.set => res = env.run_sql.val
        /\ env' = [env EXCEPT !.run_sql = Memo(res)]
        /\ LET called == Append(run.log, Ev("call", "run_sql", <<run.sql_query_str>>))
           IN  IF run_sql_raises(res)
               THEN /\ run' = IdleRun
                    /\ outcome' = [outcome EXCEPT !["_query"] =
                            Raised("ExecutionError", Append(called, Ev("raise", "run_sql", <<>>)))]
               ELSE LET log == Append(called, Ev("return", "run_sql", <<res.text>>))
                        metadata == SetItem(res.metadata, "sql_query", run.sql_query_str)
                    IN  IF Legacy_Query_synthesize_enabled
                        THEN /\ run' = [run EXCEPT !.pc = "synthesize", !.log = log,
                                                   !.raw_response_str = res.text,
                                                   !.metadata = metadata]
                             /\ UNCHANGED outcome
                        ELSE /\ run' = IdleRun
                             /\ outcome' = [outcome EXCEPT !["_query"] =
                                     Returned(res.text, metadata, log)]
    /\ UNCHANGED <<engine, parseVars, ctxVars>>

\* Legacy _query, lines 203-208: the second predict call is made, with the
\* response synthesis prompt, the question, the SQL and the raw result.
Legacy_Query_SynthesisCall ==
    /\ run.fn = "_query" /\ run.pc = "synthesize"
    /\ run' = [run EXCEPT !.pc = "synthesize_wait",
                          !.log = Append(@, Ev("call", "predict",
                                     <<engine.response_synthesis_prompt.name, QueryStr,
                                       run.sql_query_str, run.raw_response_str>>))]
    /\ UNCHANGED <<engine, env, outcome, parseVars, ctxVars>>

\* Legacy _query, lines 203-212: the second predict returns or raises.
Legacy_Query_SynthesisReturn ==
    /\ run.fn = "_query" /\ run.pc = "synthesize_wait"
    /\ \E res \in LegacySynthesisResults :
        /\ env.synthesize.set => res = env.synthesize.val
        /\ env' = [env EXCEPT !.synthesize = Memo(res)]
        /\ run' = IdleRun
        /\ outcome' = [outcome EXCEPT !["_query"] =
              IF res.raised
              THEN Raised("PredictError", Append(run.log, Ev("raise", "predict", <<>>)))
              ELSE Returned(res.text, run.metadata,
                            Append(run.log, Ev("return", "predict", <<res.text>>)))]
    /\ UNCHANGED <<engine, parseVars, ctxVars>>

\* Legacy _aquery, line 216.
Legacy_AQuery_Context ==
    /\ engine.status = "ok"
    /\ run.fn = "none"
    /\ ~outcome["_aquery"].done
    /\ LET ctx == Legacy_get_table_context(engine.sql_context_container)
           log == Legacy_ContextEvents(ctx)
       IN  IF ctx.kind = "ok"
           THEN /\ run' = [IdleRun EXCEPT !.fn = "_aquery", !.pc = "predict",
                                          !.table_desc_str = ctx.block, !.log = log]
                /\ UNCHANGED outcome
           ELSE /\ run' = IdleRun
                /\ outcome' = [outcome EXCEPT !["_aquery"] = Raised(ctx.kind, log)]
    /\ UNCHANGED <<engine, env, parseVars, ctxVars>>

\* Legacy _aquery, lines 219-224: the apredict call is made and awaited.
Legacy_AQuery_PredictCall ==
    /\ run.fn = "_aquery" /\ run.pc = "predict"
    /\ run' = [run EXCEPT !.pc = "predict_wait",
                          !.log = Append(@, Ev("call", "apredict",
                                     <<engine.text_to_sql_prompt, QueryStr,
                                       run.table_desc_str, Dialect>>))]
    /\ UNCHANGED <<engine, env, outcome, parseVars, ctxVars>>

\* Legacy _aquery, lines 219-226: apredict returns or raises; the completion
\* is parsed.
Legacy_AQuery_PredictReturn ==
    /\ run.fn = "_aquery" /\ run.pc = "predict_wait"
    /\ \E res \in PredictResults :
        /\ env.predict.set => res = env.predict.val
        /\ env' = [env EXCEPT !.predict = Memo(res)]
        /\ IF res.raised
           THEN /\ run' = IdleRun
                /\ outcome' = [outcome EXCEPT !["_aquery"] =
                        Raised("PredictError", Append(run.log, Ev("raise", "apredict", <<>>)))]
           ELSE /\ run' = [run EXCEPT !.pc = "run_sql",
                                      !.log = Append(@, Ev("return", "apredict", <<res.text>>)),
                                      !.sql_query_str = Legacy_parse_response_to_sql(res.text)]
                /\ UNCHANGED outcome
    /\ UNCHANGED <<engine, parseVars, ctxVars>>

\* Legacy _aquery, lines 230-232: run_sql, the sql_query entry, and the raw
\* text as the response; self._synthesize_response is not read.
Legacy_AQuery_RunSql ==
    /\ run.fn = "_aquery" /\ run.pc = "run_sql"
    /\ \E res \in RunSqlResults :
        /\ env.run_sql.set => res = env.run_sql.val
        /\ env' = [env EXCEPT !.run_sql = Memo(res)]
        /\ run' = IdleRun
        /\ LET called == Append(run.log, Ev("call", "run_sql", <<run.sql_query_str>>))
           IN  outcome' = [outcome EXCEPT !["_aquery"] =
                 IF run_sql_raises(res)
                 THEN Raised("ExecutionError", Append(called, Ev("raise", "run_sql", <<>>)))
                 ELSE Returned(res.text,
                               SetItem(res.metadata, "sql_query", run.sql_query_str),
                               Append(called, Ev("return", "run_sql", <<res.text>>)))]
    /\ UNCHANGED <<engine, parseVars, ctxVars>>

NextLegacy ==
    \/ Legacy_Construct
    \/ NewQuestion
    \/ Legacy_Query_Context
    \/ Legacy_Query_PredictCall
    \/ Legacy_Query_PredictReturn
    \/ Legacy_Query_RunSql
    \/ Legacy_Query_SynthesisCall
    \/ Legacy_Query_SynthesisReturn
    \/ Legacy_AQuery_Context
    \/ Legacy_AQuery_PredictCall
    \/ Legacy_AQuery_PredictReturn
    \/ Legacy_AQuery_RunSql

InitLegacy == PipeIdle /\ ParseIdle /\ CtxIdle

SpecLegacy == InitLegacy /\ [][NextLegacy]_vars

\* ------------------------------------------------------------- claims
\* 1-based position of the first tok in s at a position > after; 0 when none.
FirstAfter(s, tok, after) ==
    IF \E i \in (after + 1)..Len(s) : s[i] = tok
    THEN CHOOSE i \in (after + 1)..Len(s) :
            s[i] = tok /\ \A j \in (after + 1)..(i - 1) : s[j] # tok
    ELSE 0

\* Whitespace trimmed, then leading/trailing backticks, then whitespace again.
TrimFence(s) == Strip(Strip(Strip(s, Whitespace), Backticks), Whitespace)
TrimOnly(s) == Strip(s, Whitespace)

\* t is a contiguous piece of s, only whitespace and backticks were cut off
\* at either end, and t neither starts nor ends with whitespace.
CutFromEndsOnly(t, s) ==
    /\ \E i \in 1..(Len(s) + 1) : \E j \in (i - 1)..Len(s) :
          /\ t = SubSeq(s, i, j)
          /\ \A k \in (1..(i - 1)) \cup ((j + 1)..Len(s)) : s[k] \in Whitespace \cup Backticks
    /\ t # <<>> => (t[1] \notin Whitespace /\ t[Len(t)] \notin Whitespace)

HasBothMarkers == Contains(p_response, SQLQueryMarker) /\ Contains(p_response, SQLResultMarker)

\* The text strictly between the first "SQLQuery:" and the first "SQLResult:"
\* of the whole completion (empty when the result marker comes first).
BetweenFirstMarkers(s) ==
    SubSeq(s, FirstAfter(s, SQLQueryMarker, 0) + 1, FirstAfter(s, SQLResultMarker, 0) - 1)

\* The text after the first "SQLQuery:" up to the first "SQLResult:" that
\* follows it, or to the end of the completion when none follows.
AfterQueryUpToResult(s) ==
    LET q == FirstAfter(s, SQLQueryMarker, 0)
        r == FirstAfter(s, SQLResultMarker, q)
    IN  SubSeq(s, q + 1, IF r = 0 THEN Len(s) ELSE r - 1)

\* C1 as stated: with both markers present, in any order, the statement is the
\* text between the first "SQLQuery:" and the first "SQLResult:" of the
\* completion, trimmed and fence-stripped.
C1_BetweenFirstMarkersAnyOrder ==
    (p_pc # "start" /\ HasBothMarkers) => p_sql = TrimFence(BetweenFirstMarkers(p_response))

\* C1 amended: with both markers present, the statement is the text between
\* the first "SQLQuery:" and the first "SQLResult:" that follows it (the rest
\* of the completion when none follows), trimmed and fence-stripped.
C1_BetweenQueryAndFollowingResult ==
    (p_pc # "start" /\ HasBothMarkers) =>
        /\ p_sql = TrimFence(AfterQueryUpToResult(p_response))
        /\ CutFromEndsOnly(p_sql, AfterQueryUpToResult(p_response))

C1_Witness ==
    /\ p_pc # "start" /\ HasBothMarkers
    /\ FirstAfter(p_response, SQLResultMarker, 0) < FirstAfter(p_response, SQLQueryMarker, 0)
    /\ FirstAfter(p_response, SQLResultMarker, FirstAfter(p_response, SQLQueryMarker, 0)) # 0
    /\ p_sql = <<"a">>

\* The completion up to (excluding) its first "SQLResult:", whole when absent.
UpToResult(s) ==
    LET r == FirstAfter(s, SQLResultMarker, 0)
    IN  IF r = 0 THEN s ELSE SubSeq(s, 1, r - 1)

\* C2 as stated: without "SQLQuery:" the statement is the completion up to the
\* first "SQLResult:", with surrounding whitespace trimmed and nothing else
\* removed.
C2_NoLabelWhitespaceTrimOnly ==
    (p_pc # "start" /\ ~Contains(p_response, SQLQueryMarker)) =>
        p_sql = TrimOnly(UpToResult(p_response))

\* C2 amended: without "SQLQuery:" the statement is the completion up to the
\* first "SQLResult:", trimmed of surrounding whitespace and of leading and
\* trailing backticks; nothing is removed from the inside.
C2_NoLabelTrimAndFenceStrip ==
    (p_pc # "start" /\ ~Contains(p_response, SQLQueryMarker)) =>
        /\ p_sql = TrimFence(UpToResult(p_response))
        /\ CutFromEndsOnly(p_sql, UpToResult(p_response))

C2_Witness ==
    /\ p_pc # "start" /\ ~Contains(p_response, SQLQueryMarker)
    /\ Contains(p_response, SQLResultMarker)
    /\ FirstAfter(p_response, SQLResultMarker, 0) < Len(p_response)
    /\ Len(p_sql) >= 2
    /\ Len(p_sql) < FirstAfter(p_response, SQLResultMarker, 0) - 1

\* C10: without a "[query_vector]" token in the extracted statement the
\* PGVector result is the base statement and replacing again changes nothing;
\* with the token, every occurrence is replaced by the stringified embedding
\* (the rest kept in place), so no token is left.
C10_VectorReplacement ==
    p_pc = "pg_done" =>
        LET n == Len(pg_embedding)
            before(i) == Cardinality({k \in 1..(i - 1) : p_sql[k] = QueryVectorToken})
            off(i) == (i - 1) + before(i) * (n - 1)
        IN  /\ ~Contains(p_sql, QueryVectorToken) =>
                /\ pg_sql = p_sql
                /\ Replace(pg_sql, QueryVectorToken, pg_embedding) = pg_sql
            /\ Contains(p_sql, QueryVectorToken) =>
                /\ ~Contains(pg_sql, QueryVectorToken)
                /\ Len(pg_sql) = Len(p_sql) + Count(p_sql, QueryVectorToken) * (n - 1)
                /\ \A i \in 1..Len(p_sql) :
                      IF p_sql[i] = QueryVectorToken
                      THEN SubSeq(pg_sql, off(i) + 1, off(i) + n) = pg_embedding
                      ELSE pg_sql[off(i) + 1] = p_sql[i]

C10_Witness ==
    /\ p_pc = "pg_done"
    /\ Count(p_sql, QueryVectorToken) >= 2
    /\ Len(p_sql) >= 3

\* ---- table context
SuppliedList == c_tables.given /\ Len(c_tables.list) > 0
InDatabase(n) == \E i \in 1..Len(c_db_names) : c_db_names[i] = n
NameOrTable(e) == e.kind \in {"str", "Table"}

\* C4: over a non-empty supplied list (whose named tables the database has),
\* names and Table references are both accepted and normalised to the table
\* name whose description is fetched, and ValueError is raised if and only if
\* some element is neither a name nor a Table reference.
C4_ValueErrorIffUnknownType ==
    (c_result.kind # "unset" /\ SuppliedList
        /\ \A i \in 1..Len(c_tables.list) :
              NameOrTable(c_tables.list[i]) => InDatabase(c_tables.list[i].name)) =>
        /\ (c_result.kind = "ValueError") <=>
              (\E i \in 1..Len(c_tables.list) : ~NameOrTable(c_tables.list[i]))
        /\ (\A i \in 1..Len(c_tables.list) : NameOrTable(c_tables.list[i])) =>
              /\ c_result.kind = "ok"
              /\ c_result.calls = [i \in 1..Len(c_tables.list) |-> c_tables.list[i].name]

\* The names the block is built for, and the entry expected for a name.
ContextNames ==
    IF SuppliedList THEN [i \in 1..Len(c_tables.list) |-> c_tables.list[i].name]
    ELSE c_db_names
ExpectedEntry(n) ==
    IF n \in DOMAIN c_kwargs THEN TableInfo[n] \o <<"TD:">> \o c_kwargs[n] ELSE TableInfo[n]
RECURSIVE EntryStart(_, _)
EntryStart(names, i) ==
    IF i = 1 THEN 1
    ELSE EntryStart(names, i - 1) + Len(ExpectedEntry(names[i - 1])) + Len(BlankLine)

\* C9: whenever _get_table_context returns a block, the block is, in order,
\* one entry per supplied table (per get_usable_table_names() name when no
\* list is supplied), consecutive entries separated by one blank line, with
\* nothing before, between or after them; a list of names the database has
\* always yields a block.
C9_TableOrderPreserved ==
    /\ c_result.kind = "ok" =>
        LET names == ContextNames
            n == Len(names)
        IN  /\ Len(c_result.block) =
                  IF n = 0 THEN 0
                  ELSE EntryStart(names, n) + Len(ExpectedEntry(names[n])) - 1
            /\ \A i \in 1..n :
                  LET from == EntryStart(names, i)
                      to == from + Len(ExpectedEntry(names[i])) - 1
                  IN  /\ SubSeq(c_result.block, from, to) = ExpectedEntry(names[i])
                      /\ i < n => SubSeq(c_result.block, to + 1, to + Len(BlankLine)) = BlankLine
    /\ (c_result.kind # "unset"
          /\ (SuppliedList => \A i \in 1..Len(c_tables.list) :
                 c_tables.list[i].kind = "str" /\ InDatabase(c_tables.list[i].name)))
        => c_result.kind = "ok"

C9_Witness ==
    /\ c_result.kind = "ok"
    /\ c_tables = Tables(<<StrElem("t2"), StrElem("t1")>>)
    /\ c_db_names = <<"t1", "t2">>
    /\ "t1" \in DOMAIN c_kwargs
    /\ c_result.block = <<"info2", "cols2", "NLNL", "info1", "TD:", "note1">>

\* ---- orchestrator
Finished(f) == outcome[f].done
Completed(f) == outcome[f].done /\ outcome[f].kind = "response"
EventsOf(log, names) == {i \in 1..Len(log) : log[i].who \in names}
CallsOf(log, names) == {i \in 1..Len(log) : log[i].who \in names /\ log[i].ev = "call"}
SynthesizerNames == {"get_response_synthesizer", "synthesize", "asynthesize"}

\* The SQL text handed to run_sql in a log (one call at most is made).
SqlPassed(log) == log[CHOOSE i \in CallsOf(log, {"run_sql"}) : TRUE].args[1]
\* The execution metadata: what run_sql returned, with the executed SQL text
\* under "sql_query".
ExecutionMetadata(log) ==
    [k \in DOMAIN env.run_sql.val.metadata \cup {"sql_query"} |->
        IF k = "sql_query" THEN SqlPassed(log) ELSE env.run_sql.val.metadata[k]]

\* C3: every completed _query / _aquery, with or without synthesis, returns
\* metadata whose "sql_query" is the SQL text passed to run_sql and which
\* holds every entry of the execution metadata, also for the keys the
\* synthesizer's own metadata has.
C3_MetadataHasExecutedSql ==
    \A f \in EntryPoints :
        Completed(f) =>
            /\ CallsOf(outcome[f].log, {"run_sql"}) # {}
            /\ "sql_query" \in DOMAIN outcome[f].metadata
            /\ outcome[f].metadata["sql_query"] = SqlPassed(outcome[f].log)
            /\ \A k \in DOMAIN ExecutionMetadata(outcome[f].log) :
                  /\ k \in DOMAIN outcome[f].metadata
                  /\ outcome[f].metadata[k] = ExecutionMetadata(outcome[f].log)[k]

C3_Witness ==
    /\ Completed("_aquery") /\ Completed("_query")
    /\ engine.synthesize_response
    /\ "sql_query" \in DOMAIN env.synthesize.val.metadata
    /\ "sql_query" \in DOMAIN env.run_sql.val.metadata
    /\ outcome["_aquery"].metadata["sql_query"] = <<"a", "[", "9", "]">>
    /\ outcome["_aquery"].metadata["node1"] = <<"m1">>

\* The stage a collaborator belongs to.
Stage(who) ==
    CASE who \in {"get_table_context", "get_single_table_info"} -> 1
      [] who \in {"predict", "apredict", "get_query_embedding"} -> 2
      [] who = "run_sql" -> 3
      [] OTHER -> 4
\* The error a failing stage hands to the caller.
StageErrors(stage) ==
    CASE stage = 1 -> {"ValueError", "DatabaseError"}
      [] stage = 2 -> {"PredictError", "EmbeddingError"}
      [] stage = 3 -> {"ExecutionError"}
      [] OTHER -> {"SynthesisError", "AttributeError"}

\* In a log: the stages never go back, and a call of a stage is made only
\* after every call of an earlier stage has returned.
StagesInOrder(log) ==
    /\ \A i, j \in 1..Len(log) : i < j => Stage(log[i].who) <= Stage(log[j].who)
    /\ \A i, j \in 1..Len(log) :
          (i < j /\ log[i].ev = "call" /\ log[j].ev = "call"
                 /\ Stage(log[i].who) < Stage(log[j].who)) =>
              \E k \in (i + 1)..(j - 1) : log[k].ev = "return" /\ log[k].who = log[i].who
    /\ \A i \in 1..Len(log) :
          (log[i].ev = "raise" /\ i < Len(log)) =>
              /\ log[i].who = "get_single_table_info"
              /\ i + 1 = Len(log)
              /\ log[i + 1] = Ev("raise", "get_table_context", <<>>)
\* The stage whose collaborator the environment made fail, 0 when none did.
FailedStage(log) ==
    IF \E i \in 1..Len(log) : log[i].ev = "raise"
    THEN Stage(log[Len(log)].who)
    ELSE 0

\* C5: in _query and _aquery the stages run in the order context, generation,
\* execution, synthesis, each call made only after the earlier stage's call
\* returned; a failing stage's error reaches the caller and no collaborator
\* of a later stage is called (a failed run_sql is never followed by the
\* synthesizer, a failed prediction never by run_sql, a failed context never
\* by the prediction).
C5_StagesInOrderAndAbort ==
    /\ StagesInOrder(run.log)
    /\ \A f \in EntryPoints :
        Finished(f) =>
            LET log == outcome[f].log
            IN  /\ StagesInOrder(log)
                /\ FailedStage(log) # 0 =>
                      /\ outcome[f].kind = "error"
                      /\ outcome[f].error \in StageErrors(FailedStage(log))
                      /\ \A i \in 1..Len(log) : Stage(log[i].who) <= FailedStage(log)
                /\ (env.predict.set /\ env.predict.val.raised
                      /\ CallsOf(log, {"predict", "apredict"}) # {}) =>
                      /\ outcome[f].kind = "error" /\ outcome[f].error = "PredictError"
                      /\ CallsOf(log, {"run_sql"} \cup SynthesizerNames) = {}
                /\ (env.run_sql.set /\ env.run_sql.val.raised
                      /\ CallsOf(log, {"run_sql"}) # {}) =>
                      /\ outcome[f].kind = "error" /\ outcome[f].error = "ExecutionError"
                      /\ CallsOf(log, SynthesizerNames) = {}
                /\ outcome[f].kind = "error" =>
                      \/ FailedStage(log) # 0
                      \/ outcome[f].error = "AttributeError"
                /\ Completed(f) =>
                      /\ CallsOf(log, {"get_table_context"}) # {}
                      /\ CallsOf(log, {"predict", "apredict"}) # {}
                      /\ CallsOf(log, {"run_sql"}) # {}

C5_Witness ==
    /\ Finished("_aquery")
    /\ engine.synthesize_response
    /\ outcome["_aquery"].error = "ExecutionError"
    /\ Finished("_query")
    /\ outcome["_query"].error = "ExecutionError"
    /\ Len(outcome["_query"].log) >= 8

\* The name of the asynchronous equivalent of a collaborator call.
AsyncName(who) ==
    CASE who = "predict" -> "apredict"
      [] who = "synthesize" -> "asynthesize"
      [] OTHER -> who
AsyncLog(log) == [i \in 1..Len(log) |-> [log[i] EXCEPT !.who = AsyncName(@)]]

\* C6: on the same engine, question and collaborator results, _aquery makes
\* the calls _query makes, in the same order with the same arguments (predict
\* and synthesize replaced by apredict and asynthesize, run_sql the same
\* call), and hands the caller the same response text, metadata or error.
C6_AsyncMatchesSync ==
    (Finished("_query") /\ Finished("_aquery")) =>
        /\ outcome["_aquery"].log = AsyncLog(outcome["_query"].log)
        /\ outcome["_aquery"].kind = outcome["_query"].kind
        /\ outcome["_aquery"].response = outcome["_query"].response
        /\ outcome["_aquery"].metadata = outcome["_query"].metadata
        /\ outcome["_aquery"].error = outcome["_query"].error
        /\ EventsOf(outcome["_aquery"].log, {"predict", "synthesize"}) = {}
        /\ EventsOf(outcome["_query"].log, {"apredict", "asynthesize"}) = {}

C6_Witness ==
    /\ Completed("_query") /\ Completed("_aquery")
    /\ engine.synthesize_response
    /\ engine.variant = "PGVector"
    /\ CallsOf(outcome["_aquery"].log, {"asynthesize"}) # {}
    /\ CallsOf(outcome["_aquery"].log, {"run_sql"}) # {}
    /\ "sql_query" \in DOMAIN env.synthesize.val.metadata

\* C7: a custom synthesis prompt whose declared variables are not exactly
\* query_str, sql_query and context_str makes construction fail with
\* ValueError, and no context, LLM, database or synthesizer call is ever made
\* for that engine; a prompt declaring exactly the three, and the default
\* prompt, pass.
C7_PromptValidatedAtConstruction ==
    engine.status # "none" =>
        /\ (engine.response_synthesis_prompt.template_vars # RequiredVars)
              <=> engine.status = "ValueError"
        /\ (engine.response_synthesis_prompt.template_vars = RequiredVars)
              <=> engine.status = "ok"
        /\ ~engine.custom_prompt => engine.status = "ok"
        /\ engine.status = "ValueError" =>
              /\ engine.custom_prompt
              /\ run = IdleRun
              /\ env = NoEnv
              /\ \A f \in EntryPoints : outcome[f] = NoOutcome

C7_Witness ==
    /\ engine.status = "ValueError"
    /\ engine.response_synthesis_prompt.template_vars = {"query_str", "sql_query"}

\* C8: with synthesize_response = false every completed query, sync or async,
\* returns exactly the raw text run_sql returned, and the response
\* synthesizer is neither created nor called.
C8_NoSynthesisReturnsRawText ==
    (engine.status = "ok" /\ ~engine.synthesize_response) =>
        /\ EventsOf(run.log, SynthesizerNames) = {}
        /\ \A f \in EntryPoints :
              /\ EventsOf(outcome[f].log, SynthesizerNames) = {}
              /\ Completed(f) =>
                    /\ env.run_sql.set /\ ~env.run_sql.val.raised
                    /\ outcome[f].response = env.run_sql.val.text

C8_Witness ==
    /\ ~engine.synthesize_response
    /\ Completed("_query") /\ Completed("_aquery")
    /\ outcome["_query"].response = <<"rows2">>

\* The collaborators an invocation calls once at most (get_single_table_info
\* is called once per table of the context).
CalledOnce ==
    {"get_table_context", "predict", "apredict", "get_query_embedding", "run_sql",
     "get_response_synthesizer", "synthesize", "asynthesize"}
NoRepeatedCall(log) ==
    /\ \A who \in CalledOnce : Cardinality(CallsOf(log, {who})) <= 1
    /\ Cardinality(CallsOf(log, {"predict", "apredict"})) <= 1
    /\ \A i, j \in 1..Len(log) :
          (i < j /\ log[i].ev = "raise") => log[j].ev # "call"

\* C11: one invocation of _query / _aquery calls run_sql at most once and the
\* text-to-SQL prediction at most once, exactly once each when the query
\* completes, and makes no call after a failure: nothing is retried.
C11_NoRetry ==
    /\ NoRepeatedCall(run.log)
    /\ \A f \in EntryPoints :
          /\ NoRepeatedCall(outcome[f].log)
          /\ Completed(f) =>
                /\ Cardinality(CallsOf(outcome[f].log, {"run_sql"})) = 1
                /\ Cardinality(CallsOf(outcome[f].log, {"predict", "apredict"})) = 1

C11_Witness ==
    /\ Finished("_query") /\ outcome["_query"].error = "ExecutionError"
    /\ Cardinality(CallsOf(outcome["_query"].log, {"run_sql"})) = 1
    /\ Completed("_aquery") = FALSE /\ Finished("_aquery")
    /\ Cardinality(CallsOf(outcome["_aquery"].log, {"apredict"})) = 1

\* The calls of the language model in a log, and the calls among them made
\* with the response synthesis prompt.
LLMNames == {"predict", "apredict"}
LLMCalls(log) == Cardinality(CallsOf(log, LLMNames))
SynthesisCalls(log) ==
    {i \in CallsOf(log, LLMNames) : log[i].args[1] = engine.response_synthesis_prompt.name}
RunSqlReturned(log) ==
    \E i \in 1..Len(log) : log[i].who = "run_sql" /\ log[i].ev = "return"

====
